---- MODULE Spec2Model ----
(***************************************************************************)
(* Model of the slot-scoring engine of src/buffer-project/scoring.js:      *)
(* the range test, the band classifier, the preference boost, the blocked  *)
(* window test, the participant filter and slot aggregation of             *)
(* scoreSlots48, and rankSlots.                                            *)
(*                                                                         *)
(* JavaScript values are represented as follows.                          *)
(*  - a number that may be NaN is a record [nan, v]; Num(n) is the number  *)
(*    n and NaN is the not-a-number value (comparisons with it are false); *)
(*  - null / undefined is the empty tuple <<>> and a present value x is    *)
(*    the one-element tuple <<x>>;                                         *)
(*  - an "HH:MM" string is the tuple of its ":"-separated parts, a part    *)
(*    being a numeral [num |-> TRUE, v |-> n] or a non-numeric text        *)
(*    [num |-> FALSE, v |-> 0].                                            *)
(***************************************************************************)
EXTENDS Integers, Sequences, FiniteSets, TLC

VARIABLES
  pc,      \* "idle" before a call; "scored" / "threw" after scoreSlots48,
           \* "ranked" after rankSlots, "called" after a helper call
  users,   \* the users argument of scoreSlots48 (line 111)
  opts,    \* the opts argument of scoreSlots48 (lines 112-121)
  out,     \* what scoreSlots48 returned (lines 196-200), or that it threw
  ranked,  \* what rankSlots returned (lines 210-217)
  call,    \* arguments and result of a call of one of the helpers
  env      \* the Luxon settings and system zone scoreSlots48 ran under

vars == <<pc, users, opts, out, ranked, call, env>>

-----------------------------------------------------------------------------
(* JavaScript numbers and optional values *)

Num(n) == [nan |-> FALSE, v |-> n]
NaN == [nan |-> TRUE, v |-> 0]

JsStrictEq(a, b) == ~a.nan /\ ~b.nan /\ a.v = b.v
JsLt(a, b) == ~a.nan /\ ~b.nan /\ a.v < b.v
JsGe(a, b) == ~a.nan /\ ~b.nan /\ a.v >= b.v

Null == <<>>
Some(x) == <<x>>
IsNull(o) == o = <<>>
\* truthiness of an optional string: null, undefined and "" are falsy
TruthyStr(o) == o # <<>> /\ o[1] # ""

-----------------------------------------------------------------------------
(* Program constants *)

\* local.hour * 60 + local.minute ranges over one day
MinutesPerDay == 24 * 60
SlotCount == 48
SlotMinutes == 30

DEFAULT_RULES ==
  [ green   |-> [start |-> 9 * 60,       end |-> 18 * 60,      score |-> 3],
    yellow1 |-> [start |-> 6 * 60 + 30,  end |-> 9 * 60,       score |-> 2],
    yellow2 |-> [start |-> 18 * 60,      end |-> 23 * 60 + 30, score |-> 2],
    redScore |-> 0,
    blockedScore |-> -100,
    earlyBirdBoostRange |-> [start |-> 7 * 60,  end |-> 10 * 60, boost |-> 1],
    nightOwlBoostRange  |-> [start |-> 18 * 60, end |-> 22 * 60, boost |-> 1] ]

generateUtcSlots48 == [i \in 1..SlotCount |-> (i - 1) * SlotMinutes]

-----------------------------------------------------------------------------
(* Pure helpers *)

\* Number(part) of one ":"-separated part of a string
Number(part) == IF part.num THEN Num(part.v) ELSE NaN

parseHHMMToMinutes(hhmm) ==
  LET hh == Number(hhmm[1])
      mm == IF Len(hhmm) >= 2 THEN Number(hhmm[2]) ELSE NaN
      \* (mm || 0): undefined, NaN and 0 all give 0
      mmOr0 == IF mm.nan THEN 0 ELSE mm.v
  IN  IF hh.nan THEN NaN ELSE Num(hh.v * 60 + mmOr0)

isInRangeEndInclusive(localMin, start, end) ==
  IF JsStrictEq(start, end) THEN TRUE
  ELSE IF JsLt(start, end) THEN JsGe(localMin, start) /\ ~JsLt(end, localMin)
  ELSE JsGe(localMin, start) \/ JsLt(localMin, end)

isInRange(localMin, start, end) ==
  IF JsStrictEq(start, end) THEN TRUE
  ELSE IF JsLt(start, end) THEN JsGe(localMin, start) /\ JsLt(localMin, end)
  ELSE JsGe(localMin, start) \/ JsLt(localMin, end)

getBaseScoreAndBandYellowFirst(localMin, rules) ==
  IF \/ isInRange(localMin, Num(rules.yellow1.start), Num(rules.yellow1.end))
     \/ isInRange(localMin, Num(rules.yellow2.start), Num(rules.yellow2.end))
  THEN [baseScore |-> rules.yellow1.score, band |-> "yellow"]
  ELSE IF isInRange(localMin, Num(rules.green.start), Num(rules.green.end))
  THEN [baseScore |-> rules.green.score, band |-> "green"]
  ELSE [baseScore |-> rules.redScore, band |-> "red"]

getBaseScoreAndBand(localMin, rules) ==
  IF isInRange(localMin, Num(rules.green.start), Num(rules.green.end))
  THEN [baseScore |-> rules.green.score, band |-> "green"]
  ELSE IF \/ isInRange(localMin, Num(rules.yellow1.start), Num(rules.yellow1.end))
          \/ isInRange(localMin, Num(rules.yellow2.start), Num(rules.yellow2.end))
  THEN [baseScore |-> rules.yellow1.score, band |-> "yellow"]
  ELSE [baseScore |-> rules.redScore, band |-> "red"]

preferenceBoost(localMin, preference, rules) ==
  IF preference = "early_bird"
  THEN LET r == rules.earlyBirdBoostRange
       IN  IF isInRange(localMin, Num(r.start), Num(r.end)) THEN r.boost ELSE 0
  ELSE IF preference = "night_owl"
  THEN LET r == rules.nightOwlBoostRange
       IN  IF isInRange(localMin, Num(r.start), Num(r.end)) THEN r.boost ELSE 0
  ELSE 0

\* one window of noMeetingWindows.some(...): date filter, then the range test
windowMatches(w, localMin, localDateStr) ==
  IF TruthyStr(w.date) /\ (IsNull(localDateStr) \/ localDateStr[1] # w.date[1])
  THEN FALSE
  ELSE isInRange(localMin, parseHHMMToMinutes(w.start), parseHHMMToMinutes(w.end))

isBlockedIgnoringDate(localMin, noMeetingWindows, localDateStr) ==
  /\ ~IsNull(noMeetingWindows)
  /\ \E i \in 1..Len(noMeetingWindows[1]) :
       LET w == noMeetingWindows[1][i]
       IN  isInRange(localMin, parseHHMMToMinutes(w.start), parseHHMMToMinutes(w.end))

\* noMeetingWindows is Null (absent) or Some(sequence of windows)
isBlocked(localMin, noMeetingWindows, localDateStr) ==
  /\ ~IsNull(noMeetingWindows)
  /\ Len(noMeetingWindows[1]) # 0
  /\ \E i \in 1..Len(noMeetingWindows[1]) :
       windowMatches(noMeetingWindows[1][i], localMin, localDateStr)

-----------------------------------------------------------------------------
(* Time conversion: Luxon's DateTime.fromISO(...).plus(...).setZone(tz) *)

\* the civil calendar around the anchor dates, in order
Calendar == <<"2026-02-24", "2026-02-25", "2026-02-26">>
DayIndex(dateISO) == CHOOSE i \in 1..Len(Calendar) : Calendar[i] = dateISO

\* UTC offsets, in minutes, of the zones the zone database resolves (on the
\* anchor dates); any other identifier is an unsupported zone
ZoneOffsets ==
  [z \in {"UTC", "Asia/Kolkata", "America/New_York"} |->
     IF z = "UTC" THEN 0 ELSE IF z = "Asia/Kolkata" THEN 330 ELSE -300]
ValidZones == DOMAIN ZoneOffsets
INVALID_DATE == "Invalid DateTime"
INVALID == <<"Invalid DateTime">>

\* floor division and modulo for a possibly negative minute count
FloorDiv(a, b) == IF a >= 0 THEN a \div b ELSE -((-a + b - 1) \div b)

\* toFormat("HH:mm"): two digits each, as the text's digits
Digit(d) == <<"0", "1", "2", "3", "4", "5", "6", "7", "8", "9">>[d + 1]
toFormatHHmm(h, m) ==
  <<Digit(h \div 10), Digit(h % 10), ":", Digit(m \div 10), Digit(m % 10)>>

\* tz is Null or Some(zone identifier); a null zone is the default (system)
\* zone.  The result for an unsupported zone is Luxon's invalid DateTime:
\* hour and minute are NaN and every formatted text is "Invalid DateTime".
localMinutesFromUtcSlot(dateISO, utcStartMin, tz, systemZone) ==
  LET zone == IF IsNull(tz) THEN systemZone ELSE tz[1]
  IN  IF zone \notin ValidZones
      THEN [valid |-> FALSE, localMin |-> NaN,
            localLabel |-> INVALID, localDate |-> Some(INVALID_DATE)]
      ELSE LET t == utcStartMin + ZoneOffsets[zone]
               day == FloorDiv(t, MinutesPerDay)
               m == t - day * MinutesPerDay
           IN  [valid |-> TRUE, localMin |-> Num(m),
                localLabel |-> toFormatHHmm(m \div 60, m % 60),
                localDate |-> Some(Calendar[DayIndex(dateISO) + day])]

-----------------------------------------------------------------------------
(* scoreSlots48: the participant filter *)

Has(optSet, name) == ~IsNull(optSet) /\ name \in optSet[1]

\* users.find(u => u.name === name): index of the first match, 0 when none
FindByName(list, name) ==
  IF \E i \in 1..Len(list) : list[i].name = name
  THEN CHOOSE i \in 1..Len(list) :
         /\ list[i].name = name
         /\ \A j \in 1..(i - 1) : list[j].name # name
  ELSE 0

filterKeeps(u, o) ==
  /\ ~Has(o.excludeNames, u.name)
  /\ ~(~IsNull(o.selectedNames) /\ Cardinality(o.selectedNames[1]) > 0
        /\ u.name \notin o.selectedNames[1])
  /\ ~(TruthyStr(o.team) /\ u.team # o.team)
  /\ ~(o.excludeNullTimezones /\ ~TruthyStr(u.timezone))

selectParticipantsNoOverride(us, o) ==
  LET Keep(u) == filterKeeps(u, o)
  IN  SelectSeq(us, Keep)

selectParticipants(us, o) ==
  LET Keep(u) == filterKeeps(u, o)
      filtered == SelectSeq(us, Keep)
  IN  IF TruthyStr(o.includeYourselfName) /\ ~Has(o.excludeNames, o.includeYourselfName[1])
      THEN LET k == FindByName(us, o.includeYourselfName[1])
           IN  IF /\ k # 0
                  /\ (TruthyStr(us[k].timezone) \/ ~o.excludeNullTimezones)
                  /\ FindByName(filtered, o.includeYourselfName[1]) = 0
               THEN Append(filtered, us[k])
               ELSE filtered
      ELSE filtered

-----------------------------------------------------------------------------
(* scoreSlots48: one slot of the map over the 48 UTC slots *)

EmptyAcc(includeRedParticipants) ==
  [totalScore |-> 0, greenCount |-> 0, yellowCount |-> 0, redCount |-> 0,
   blockedCount |-> 0,
   redParticipants |-> IF includeRedParticipants THEN Some(<<>>) ELSE Null]

\* one iteration of `for (const user of participants)`, lines 156-181
addUserBoostWhenBlocked(acc, user, loc, rules) ==
  LET bb == getBaseScoreAndBand(loc.localMin, rules)
      boost == preferenceBoost(loc.localMin, user.preference, rules)
  IN  IF isBlocked(loc.localMin, user.noMeetingWindows, loc.localDate)
      THEN [acc EXCEPT !.totalScore = @ + rules.blockedScore + boost,
                       !.blockedCount = @ + 1]
      ELSE [acc EXCEPT
              !.totalScore = @ + bb.baseScore + boost,
              !.greenCount = IF bb.band = "green" THEN @ + 1 ELSE @,
              !.yellowCount = IF bb.band = "yellow" THEN @ + 1 ELSE @,
              !.redCount = IF bb.band \notin {"green", "yellow"} THEN @ + 1 ELSE @,
              !.redParticipants =
                 IF bb.band \notin {"green", "yellow"} /\ ~IsNull(@)
                 THEN Some(Append(@[1], [name |-> user.name, timezone |-> user.timezone,
                                         localLabel |-> loc.localLabel]))
                 ELSE @]

addUserNoContinue(acc, user, loc, rules) ==
  LET bb == getBaseScoreAndBand(loc.localMin, rules)
      boost == preferenceBoost(loc.localMin, user.preference, rules)
      blocked == isBlocked(loc.localMin, user.noMeetingWindows, loc.localDate)
      a1 == IF blocked
            THEN [acc EXCEPT !.totalScore = @ + rules.blockedScore,
                             !.blockedCount = @ + 1]
            ELSE acc
  IN  [a1 EXCEPT
         !.totalScore = @ + bb.baseScore + boost,
         !.greenCount = IF bb.band = "green" THEN @ + 1 ELSE @,
         !.yellowCount = IF bb.band = "yellow" THEN @ + 1 ELSE @,
         !.redCount = IF bb.band \notin {"green", "yellow"} THEN @ + 1 ELSE @,
         !.redParticipants =
            IF bb.band \notin {"green", "yellow"} /\ ~IsNull(@)
            THEN Some(Append(@[1], [name |-> user.name, timezone |-> user.timezone,
                                    localLabel |-> loc.localLabel]))
            ELSE @]

addUser(acc, user, loc, rules) ==
  IF isBlocked(loc.localMin, user.noMeetingWindows, loc.localDate)
  THEN [acc EXCEPT !.totalScore = @ + rules.blockedScore,
                   !.blockedCount = @ + 1]
  ELSE LET bb == getBaseScoreAndBand(loc.localMin, rules)
           boost == preferenceBoost(loc.localMin, user.preference, rules)
       IN  [acc EXCEPT
              !.totalScore = @ + bb.baseScore + boost,
              !.greenCount = IF bb.band = "green" THEN @ + 1 ELSE @,
              !.yellowCount = IF bb.band = "yellow" THEN @ + 1 ELSE @,
              !.redCount = IF bb.band \notin {"green", "yellow"} THEN @ + 1 ELSE @,
              !.redParticipants =
                 IF bb.band \notin {"green", "yellow"} /\ ~IsNull(@)
                 THEN Some(Append(@[1], [name |-> user.name, timezone |-> user.timezone,
                                         localLabel |-> loc.localLabel]))
                 ELSE @]

RECURSIVE foldUsers(_, _, _, _, _, _)
foldUsers(acc, participants, i, dateISO, utcStartMin, ctx) ==
  IF i > Len(participants) THEN acc
  ELSE LET user == participants[i]
           loc == localMinutesFromUtcSlot(dateISO, utcStartMin, user.timezone,
                                          ctx.systemZone)
       IN  foldUsers(addUser(acc, user, loc, ctx.rules), participants, i + 1,
                     dateISO, utcStartMin, ctx)

\* the callback of utcSlots.map, lines 148-194
scoreSlot(participants, utcStartMin, o, systemZone) ==
  LET acc == foldUsers(EmptyAcc(o.includeRedParticipants), participants, 1,
                       o.dateISO, utcStartMin,
                       [rules |-> o.rules, systemZone |-> systemZone])
  IN  [utcStartMin |-> utcStartMin,
       totalScore |-> acc.totalScore,
       greenCount |-> acc.greenCount,
       yellowCount |-> acc.yellowCount,
       redCount |-> acc.redCount,
       blockedCount |-> acc.blockedCount,
       participantsCount |-> Len(participants),
       redParticipants |-> acc.redParticipants]

\* Does the time conversion raise?  With Settings.throwOnInvalid set, Luxon
\* raises on building the invalid DateTime of an unsupported zone; by default
\* it returns the invalid DateTime.
Unresolved(u, systemZone) ==
  (IF IsNull(u.timezone) THEN systemZone ELSE u.timezone[1]) \notin ValidZones

Threw == [status |-> "threw", dateISO |-> Null, participants |-> <<>>, slots |-> <<>>]

scoreSlots48(us, o, luxon) ==
  LET participants == selectParticipants(us, o)
      utcSlots == generateUtcSlots48
  IN  IF /\ luxon.throwOnInvalid
         /\ \E i \in 1..Len(participants) : Unresolved(participants[i], luxon.systemZone)
      THEN Threw
      ELSE [status |-> "returned",
            dateISO |-> Some(o.dateISO),
            participants |-> participants,
            slots |-> [k \in 1..Len(utcSlots) |->
                         scoreSlot(participants, utcSlots[k], o, luxon.systemZone)]]

-----------------------------------------------------------------------------
(* rankSlots: [...slots].sort(comparator); Array.prototype.sort is stable *)

compareScoreAscending(a, b) ==
  IF a.blockedCount # b.blockedCount THEN a.blockedCount - b.blockedCount
  ELSE IF a.redCount # b.redCount THEN a.redCount - b.redCount
  ELSE IF a.totalScore # b.totalScore THEN a.totalScore - b.totalScore
  ELSE b.greenCount - a.greenCount

\* the comparator of lines 211-216
compare(a, b) ==
  IF a.blockedCount # b.blockedCount THEN a.blockedCount - b.blockedCount
  ELSE IF a.redCount # b.redCount THEN a.redCount - b.redCount
  ELSE IF a.totalScore # b.totalScore THEN b.totalScore - a.totalScore
  ELSE b.greenCount - a.greenCount

\* position of x in the sorted prefix: before the first element that must
\* follow it, so after every element that compares equal to it
insertUnstable(sorted, x) ==
  LET later == {i \in 1..Len(sorted) : compare(x, sorted[i]) <= 0}
      k == IF later = {} THEN Len(sorted) + 1
           ELSE CHOOSE i \in later : \A j \in later : i <= j
  IN  SubSeq(sorted, 1, k - 1) \o <<x>> \o SubSeq(sorted, k, Len(sorted))

insert(sorted, x) ==
  LET later == {i \in 1..Len(sorted) : compare(x, sorted[i]) < 0}
      k == IF later = {} THEN Len(sorted) + 1
           ELSE CHOOSE i \in later : \A j \in later : i <= j
  IN  SubSeq(sorted, 1, k - 1) \o <<x>> \o SubSeq(sorted, k, Len(sorted))

RECURSIVE sortFrom(_, _, _)
sortFrom(sorted, slots, i) ==
  IF i > Len(slots) THEN sorted
  ELSE sortFrom(insert(sorted, slots[i]), slots, i + 1)

rankSlots(slots) == sortFrom(<<>>, slots, 1)

-----------------------------------------------------------------------------
(* Bounds and input sets *)

MaxUsers == 2
MaxSlots == 3
MaxWindows == 2

RECURSIVE SeqsUpTo(_, _)
SeqsUpTo(S, n) ==
  IF n = 0 THEN {<<>>}
  ELSE LET shorter == SeqsUpTo(S, n - 1)
       IN  shorter \cup {Append(q, x) : q \in {r \in shorter : Len(r) = n - 1}, x \in S}

HM(h, m) == <<[num |-> TRUE, v |-> h], [num |-> TRUE, v |-> m]>>
Txt == [num |-> FALSE, v |-> 0]

AnchorDate == "2026-02-25"
NextDate == "2026-02-26"

Lunch == [start |-> HM(12, 0), end |-> HM(13, 0), date |-> Null]
LunchEmptyDate == [start |-> HM(12, 0), end |-> HM(13, 0), date |-> Some("")]
WrapDated == [start |-> HM(23, 0), end |-> HM(1, 0), date |-> Some(AnchorDate)]
FullDayNext == [start |-> HM(0, 0), end |-> HM(0, 0), date |-> Some(NextDate)]
UntilMidnight == [start |-> HM(22, 0), end |-> HM(24, 0), date |-> Some(NextDate)]
\* "ab:00"-"13:00" and "12:00"-"13:xx"
BadHour == [start |-> <<Txt, [num |-> TRUE, v |-> 0]>>, end |-> HM(13, 0), date |-> Null]
BadMinute == [start |-> HM(12, 0), end |-> <<[num |-> TRUE, v |-> 13], Txt>>, date |-> Null]

WellFormed(w) == \A i \in 1..2 : w.start[i].num /\ w.end[i].num
Malformed(u) ==
  /\ ~IsNull(u.noMeetingWindows)
  /\ \E i \in 1..Len(u.noMeetingWindows[1]) : ~WellFormed(u.noMeetingWindows[1][i])

ALT_RULES ==
  [ green   |-> [start |-> 22 * 60, end |-> 6 * 60,  score |-> 5],
    yellow1 |-> [start |-> 5 * 60,  end |-> 9 * 60,  score |-> 2],
    yellow2 |-> [start |-> 20 * 60, end |-> 23 * 60, score |-> 4],
    redScore |-> -1,
    blockedScore |-> -50,
    earlyBirdBoostRange |-> [start |-> 23 * 60, end |-> 2 * 60,  boost |-> 2],
    nightOwlBoostRange  |-> [start |-> 10 * 60, end |-> 10 * 60, boost |-> 3] ]

\* yellow2 covers the whole day: no minute is red
FULLDAY_RULES ==
  [DEFAULT_RULES EXCEPT !.yellow2 = [start |-> 12 * 60, end |-> 12 * 60, score |-> 7]]

Preferences == {"none", "early_bird", "night_owl"}
BadZone == "Mars/Olympus_Mons"
SystemZones == {"UTC", "America/New_York"}

DefaultOpts ==
  [dateISO |-> AnchorDate, rules |-> DEFAULT_RULES, selectedNames |-> Null,
   team |-> Null, excludeNames |-> Null, includeYourselfName |-> Null,
   excludeNullTimezones |-> TRUE, includeRedParticipants |-> TRUE]

User(n, tz, team, pref, win) ==
  [name |-> n, timezone |-> tz, team |-> team, preference |-> pref,
   noMeetingWindows |-> win]

\* the scoring inputs: what a participant contributes to a slot
Profile(tz, pr, w) == [timezone |-> Some(tz), preference |-> pr, noMeetingWindows |-> w]
ScoreProfiles ==
  { Profile("UTC", "none", Null),
    Profile("UTC", "early_bird", Some(<<Lunch, WrapDated>>)),
    Profile("UTC", "night_owl", Some(<<Lunch, WrapDated>>)),
    Profile("Asia/Kolkata", "early_bird", Null),
    Profile("Asia/Kolkata", "night_owl", Some(<<Lunch, WrapDated>>)),
    Profile(BadZone, "none", Null),
    Profile("UTC", "none", Some(<<BadHour>>)),
    Profile("UTC", "early_bird", Some(<<BadMinute>>)) }

PositionName(i) == <<"P1", "P2", "P3", "P4">>[i]

ScoreUserLists ==
  {[i \in 1..Len(q) |-> User(PositionName(i), q[i].timezone, Null, q[i].preference,
                             q[i].noMeetingWindows)] :
      q \in SeqsUpTo(ScoreProfiles, MaxUsers)}

ScoreOpts ==
  {[DefaultOpts EXCEPT !.rules = r, !.includeRedParticipants = b] :
      r \in {DEFAULT_RULES, ALT_RULES}, b \in BOOLEAN}

\* the filter inputs: what decides membership of the working set
FilterNames == {"Ana", "Bo"}
FilterUsers ==
  {User("Ana", tz, Some(tm), "none", Null) : tz \in {Null, Some("UTC")}, tm \in {"Eng", "Ops"}}
  \cup {User("Bo", Some("UTC"), Some(tm), "none", Null) : tm \in {"Eng", "Ops"}}
FilterUserLists == SeqsUpTo(FilterUsers, MaxUsers)
FilterOpts ==
  {[DefaultOpts EXCEPT !.selectedNames = sel, !.team = tm, !.excludeNames = ex,
                       !.includeYourselfName = me, !.excludeNullTimezones = nz] :
      sel \in {Null, Some({}), Some({"Ana"}), Some({"Bo"})},
      tm \in {Null, Some("Eng")},
      ex \in {Null, Some({"Ana"}), Some({"Bo"})},
      me \in {Null, Some("Ana")},
      nz \in BOOLEAN}

\* arbitrary slot records for the ranker, told apart by utcStartMin
KeyValues == {0, 1}
RankRecords(i) ==
  {[utcStartMin |-> (i - 1) * SlotMinutes, totalScore |-> t, greenCount |-> g,
    yellowCount |-> 0, redCount |-> r, blockedCount |-> b,
    participantsCount |-> g + r + b, redParticipants |-> Null] :
      t \in KeyValues, g \in KeyValues, r \in KeyValues, b \in KeyValues}
RECURSIVE RankArrays(_)
RankArrays(n) ==
  IF n = 0 THEN {<<>>}
  ELSE LET shorter == RankArrays(n - 1)
       IN  shorter \cup {Append(q, x) : q \in {r \in shorter : Len(r) = n - 1},
                                       x \in RankRecords(n)}

-----------------------------------------------------------------------------
(* State machine *)

NoResult == [status |-> "none", dateISO |-> Null, participants |-> <<>>, slots |-> <<>>]
NoCall == [fn |-> "none"]
\* Luxon's defaults: Settings.throwOnInvalid is false
DefaultEnv == [throwOnInvalid |-> FALSE, systemZone |-> "UTC"]

Idle(us, os) ==
  /\ pc = "idle"
  /\ users \in us
  /\ opts \in os
  /\ out = NoResult
  /\ ranked = <<>>
  /\ call = NoCall
  /\ env = DefaultEnv

Init == Idle(ScoreUserLists, ScoreOpts)
InitFilter == Idle(FilterUserLists, FilterOpts)
InitHelpers == Idle({<<>>}, {DefaultOpts})
InitRank ==
  /\ pc = "scored"
  /\ users = <<>>
  /\ opts = DefaultOpts
  /\ out \in {[status |-> "returned", dateISO |-> Some(AnchorDate),
               participants |-> <<>>, slots |-> a] : a \in RankArrays(MaxSlots)}
  /\ ranked = <<>>
  /\ call = NoCall
  /\ env = DefaultEnv

\* a call of scoreSlots48(users, opts).  The Luxon configuration and the
\* system zone are the environment's; they are drawn only where the call
\* reads them (an unsupported zone, a participant without a zone).
ScoreSlots48 ==
  /\ pc = "idle"
  /\ LET p == selectParticipants(users, opts)
         ts == IF \E i \in 1..Len(p) : Unresolved(p[i], "UTC") THEN BOOLEAN ELSE {FALSE}
         zs == IF \E i \in 1..Len(p) : IsNull(p[i].timezone) THEN SystemZones ELSE {"UTC"}
     IN  \E t \in ts, z \in zs :
           /\ env' = [throwOnInvalid |-> t, systemZone |-> z]
           /\ out' = scoreSlots48(users, opts, env')
  /\ pc' = IF out'.status = "threw" THEN "threw" ELSE "scored"
  /\ UNCHANGED <<users, opts, ranked, call>>

\* a call of rankSlots on the slots of the result
RankSlots ==
  /\ pc = "scored"
  /\ ranked' = rankSlots(out.slots)
  /\ pc' = "ranked"
  /\ UNCHANGED <<users, opts, out, call, env>>

Minutes == 0..(MinutesPerDay - 1)
RangeEnds == {0, 1, 6 * 60 + 30, 9 * 60, 18 * 60, 23 * 60 + 30, MinutesPerDay - 1, MinutesPerDay}

CallIsInRange ==
  /\ pc = "idle"
  /\ \E m \in Minutes, s \in RangeEnds \ {MinutesPerDay}, e \in RangeEnds :
       call' = [fn |-> "isInRange", localMin |-> m, start |-> s, end |-> e,
                ret |-> isInRange(Num(m), Num(s), Num(e))]
  /\ pc' = "called"
  /\ UNCHANGED <<users, opts, out, ranked, env>>

CallGetBaseScoreAndBand ==
  /\ pc = "idle"
  /\ \E m \in Minutes, r \in {DEFAULT_RULES, ALT_RULES, FULLDAY_RULES} :
       call' = [fn |-> "getBaseScoreAndBand", localMin |-> m, rules |-> r,
                ret |-> getBaseScoreAndBand(Num(m), r)]
  /\ pc' = "called"
  /\ UNCHANGED <<users, opts, out, ranked, env>>

CallPreferenceBoost ==
  /\ pc = "idle"
  /\ \E m \in {k \in Minutes : k % SlotMinutes = 0}, p \in Preferences,
        r \in {DEFAULT_RULES, ALT_RULES} :
       call' = [fn |-> "preferenceBoost", localMin |-> m, preference |-> p, rules |-> r,
                ret |-> preferenceBoost(Num(m), p, r)]
  /\ pc' = "called"
  /\ UNCHANGED <<users, opts, out, ranked, env>>

BlockWindows == {Lunch, LunchEmptyDate, WrapDated, FullDayNext, UntilMidnight}
BlockDates == {Null, Some("2026-02-24"), Some(AnchorDate), Some(NextDate)}
BlockMinutes == {k \in Minutes : k % SlotMinutes \in {0, SlotMinutes - 1}}

CallIsBlocked ==
  /\ pc = "idle"
  /\ \E m \in BlockMinutes, d \in BlockDates,
        w \in {Null} \cup {Some(q) : q \in SeqsUpTo(BlockWindows, MaxWindows)} :
       call' = [fn |-> "isBlocked", localMin |-> m, noMeetingWindows |-> w,
                localDate |-> d, ret |-> isBlocked(Num(m), w, d)]
  /\ pc' = "called"
  /\ UNCHANGED <<users, opts, out, ranked, env>>

Next == ScoreSlots48 \/ RankSlots
NextScore == ScoreSlots48
NextRank == RankSlots
NextRange == CallIsInRange
NextBand == CallGetBaseScoreAndBand \/ CallPreferenceBoost
NextBlocked == CallIsBlocked

Spec == Init /\ [][Next]_vars
SpecFilter == InitFilter /\ [][NextScore]_vars
SpecRank == InitRank /\ [][NextRank]_vars
SpecRange == InitHelpers /\ [][NextRange]_vars
SpecBand == InitHelpers /\ [][NextBand]_vars
SpecBlocked == InitHelpers /\ [][NextBlocked]_vars

-----------------------------------------------------------------------------
(* Properties *)

\* the minutes of the day the spec's range [start, end) covers
RangeSet(start, end) ==
  IF start = end THEN Minutes
  ELSE IF start < end THEN {m \in Minutes : start <= m /\ m < end}
  ELSE {m \in Minutes : m >= start \/ m < end}

Returned == pc \in {"scored", "ranked"} /\ out.status = "returned"

\* C1: in every slot record scoreSlots48 returns, greenCount + yellowCount +
\* redCount + blockedCount equals participantsCount, which equals the length
\* of the returned participants list.
C1_CountsPartition ==
  Returned =>
    /\ Len(out.slots) = SlotCount
    /\ \A k \in 1..Len(out.slots) :
         LET s == out.slots[k]
         IN  /\ s.greenCount + s.yellowCount + s.redCount + s.blockedCount
                  = s.participantsCount
             /\ s.participantsCount = Len(out.participants)

C1_Witness ==
  /\ Returned
  /\ Len(out.participants) >= 2
  /\ \E k \in 1..Len(out.slots) :
       /\ out.slots[k].blockedCount > 0
       /\ out.slots[k].greenCount > 0
  /\ \E k \in 1..Len(out.slots) :
       /\ out.slots[k].redCount > 0
       /\ out.slots[k].yellowCount > 0

\* what one participant contributes to one slot, from the classifiers alone
Local(p, utcStartMin) ==
  localMinutesFromUtcSlot(opts.dateISO, utcStartMin, p.timezone, env.systemZone)
BlockedAt(p, utcStartMin) ==
  LET loc == Local(p, utcStartMin)
  IN  isBlocked(loc.localMin, p.noMeetingWindows, loc.localDate)
BandAt(p, utcStartMin) ==
  getBaseScoreAndBand(Local(p, utcStartMin).localMin, opts.rules).band
Term(p, utcStartMin) ==
  IF BlockedAt(p, utcStartMin) THEN opts.rules.blockedScore
  ELSE getBaseScoreAndBand(Local(p, utcStartMin).localMin, opts.rules).baseScore
       + preferenceBoost(Local(p, utcStartMin).localMin, p.preference, opts.rules)

RECURSIVE SumTerms(_, _, _)
SumTerms(ps, i, utcStartMin) ==
  IF i > Len(ps) THEN 0
  ELSE Term(ps[i], utcStartMin) + SumTerms(ps, i + 1, utcStartMin)

CountBand(ps, utcStartMin, band) ==
  Cardinality({i \in 1..Len(ps) :
                 ~BlockedAt(ps[i], utcStartMin) /\ BandAt(ps[i], utcStartMin) = band})

\* C2: totalScore of every slot is the sum over the working participants of
\* blockedScore when the participant is blocked at its local time and date,
\* otherwise baseScore + preferenceBoost; a blocked participant increments no
\* band counter and is not listed in redParticipants.
C2_TotalScoreIsSumOfTerms ==
  Returned =>
    \A k \in 1..Len(out.slots) :
      LET s == out.slots[k]
          ps == out.participants
          u == s.utcStartMin
      IN  /\ s.totalScore = SumTerms(ps, 1, u)
          /\ s.blockedCount = Cardinality({i \in 1..Len(ps) : BlockedAt(ps[i], u)})
          /\ s.greenCount = CountBand(ps, u, "green")
          /\ s.yellowCount = CountBand(ps, u, "yellow")
          /\ s.redCount = CountBand(ps, u, "red")
          /\ ~IsNull(s.redParticipants) =>
               /\ Len(s.redParticipants[1]) = s.redCount
               /\ \A j \in 1..Len(s.redParticipants[1]) :
                    \E i \in 1..Len(ps) :
                       /\ ps[i].name = s.redParticipants[1][j].name
                       /\ ~BlockedAt(ps[i], u)
                       /\ BandAt(ps[i], u) = "red"

\* a blocked participant whose local time is in the green band and in its
\* boost range
C2_Witness ==
  /\ Returned
  /\ \E k \in 1..Len(out.slots), i \in 1..Len(out.participants) :
       LET p == out.participants[i]
           u == out.slots[k].utcStartMin
       IN  /\ BlockedAt(p, u)
           /\ BandAt(p, u) = "green"
           /\ preferenceBoost(Local(p, u).localMin, p.preference, opts.rules) > 0
           /\ out.slots[k].totalScore = SumTerms(out.participants, 1, u)

\* the ranking key: a is strictly better than b
StrictlyBetter(a, b) ==
  \/ a.blockedCount < b.blockedCount
  \/ /\ a.blockedCount = b.blockedCount
     /\ \/ a.redCount < b.redCount
        \/ /\ a.redCount = b.redCount
           /\ \/ a.totalScore > b.totalScore
              \/ /\ a.totalScore = b.totalScore
                 /\ a.greenCount > b.greenCount

SameKey(a, b) ==
  /\ a.blockedCount = b.blockedCount
  /\ a.redCount = b.redCount
  /\ a.totalScore = b.totalScore
  /\ a.greenCount = b.greenCount

\* position of the record with this utcStartMin in a slot sequence
PosOf(slots, u) == CHOOSE i \in 1..Len(slots) : slots[i].utcStartMin = u

IsPermutation(a, b) ==
  /\ Len(a) = Len(b)
  /\ \A i \in 1..Len(a) : \E j \in 1..Len(b) : b[j] = a[i]
  /\ \A j \in 1..Len(b) : \E i \in 1..Len(a) : a[i] = b[j]

\* C3: in the sequence rankSlots returns no record is strictly better, under
\* the key (blockedCount up, redCount up, totalScore down, greenCount down),
\* than a record placed before it; a record with fewer blocked participants
\* is placed before every record with more.
C3_RankedByKey ==
  pc = "ranked" =>
    /\ IsPermutation(out.slots, ranked)
    /\ \A i, j \in 1..Len(ranked) :
         /\ i < j => ~StrictlyBetter(ranked[j], ranked[i])
         /\ ranked[i].blockedCount < ranked[j].blockedCount => i < j

\* a record with fewer blocked participants and a lower totalScore, more red
\* and fewer green than another is moved in front of it
C3_Witness ==
  /\ pc = "ranked"
  /\ \E i, j \in 1..Len(ranked) :
       /\ i < j
       /\ ranked[i].blockedCount < ranked[j].blockedCount
       /\ ranked[i].totalScore < ranked[j].totalScore
       /\ ranked[i].redCount > ranked[j].redCount
       /\ ranked[i].greenCount < ranked[j].greenCount
       /\ PosOf(out.slots, ranked[i].utcStartMin) > PosOf(out.slots, ranked[j].utcStartMin)

\* C4: records equal on all four keys keep their relative input order, and
\* ranking the ranked sequence again returns the same sequence.
C4_RankStable ==
  pc = "ranked" =>
    /\ \A i, j \in 1..Len(ranked) :
         (i < j /\ SameKey(ranked[i], ranked[j])) =>
            PosOf(out.slots, ranked[i].utcStartMin) < PosOf(out.slots, ranked[j].utcStartMin)
    /\ rankSlots(ranked) = ranked

\* two records with equal keys in a sequence that the ranking reorders
C4_Witness ==
  /\ pc = "ranked"
  /\ ranked # out.slots
  /\ \E i, j \in 1..Len(ranked) :
       /\ i < j
       /\ SameKey(ranked[i], ranked[j])
       /\ PosOf(out.slots, ranked[j].utcStartMin) > PosOf(out.slots, ranked[i].utcStartMin) + 1

\* a rule set whose green range excludes minute m and whose yellow ranges
\* are given
YellowOnly(m, y1, y2) ==
  [DEFAULT_RULES EXCEPT
     !.green = [start |-> (m + 1) % MinutesPerDay,
                end |-> ((m + 1) % MinutesPerDay) + 1, score |-> 3],
     !.yellow1 = [start |-> y1[1], end |-> y1[2], score |-> 2],
     !.yellow2 = [start |-> y2[1], end |-> y2[2], score |-> 2]]
Off(m) == <<(m + 1) % MinutesPerDay, ((m + 1) % MinutesPerDay) + 1>>
AsWindow(start, end) ==
  Some(<<[start |-> HM(start \div 60, start % 60), end |-> HM(end \div 60, end % 60),
          date |-> Null]>>)

\* C5: isInRange(t, start, end) is true for every t when start = end, is
\* start <= t < end when start < end, and is t >= start or t < end when
\* start > end; the green and yellow band tests, the blocked-window test and
\* the two preference-boost tests give the same answer for the same range.
C5_RangeRule ==
  call.fn = "isInRange" =>
    LET m == call.localMin
        s == call.start
        e == call.end
        in == m \in RangeSet(s, e)
    IN  /\ call.ret = in
        /\ (s = e) => call.ret
        /\ (s < e) => (call.ret <=> (s <= m /\ m < e))
        /\ (s > e) => (call.ret <=> (m >= s \/ m < e))
        /\ (getBaseScoreAndBand(Num(m),
               [DEFAULT_RULES EXCEPT !.green = [start |-> s, end |-> e, score |-> 3]]).band
             = "green") <=> in
        /\ (getBaseScoreAndBand(Num(m), YellowOnly(m, <<s, e>>, Off(m))).band = "yellow") <=> in
        /\ (getBaseScoreAndBand(Num(m), YellowOnly(m, Off(m), <<s, e>>)).band = "yellow") <=> in
        /\ (preferenceBoost(Num(m), "early_bird",
               [DEFAULT_RULES EXCEPT !.earlyBirdBoostRange = [start |-> s, end |-> e, boost |-> 1]])
             = 1) <=> in
        /\ (preferenceBoost(Num(m), "night_owl",
               [DEFAULT_RULES EXCEPT !.nightOwlBoostRange = [start |-> s, end |-> e, boost |-> 1]])
             = 1) <=> in
        /\ isBlocked(Num(m), AsWindow(s, e), Some(AnchorDate)) <=> in

\* a wrapping range: a minute before its end is inside, the end is not
C5_Witness ==
  /\ call.fn = "isInRange"
  /\ call.start > call.end
  /\ call.ret
  /\ call.localMin = call.end - 1

Occurrences(list, u) == Cardinality({i \in 1..Len(list) : list[i] = u})
NamedOnce(list, name) == Cardinality({i \in 1..Len(list) : list[i].name = name}) = 1

WorkingSet == selectParticipants(users, opts)

\* C7: when a working participant has a blocked window whose start or end is
\* not a well-formed "HH:MM", the scoring run fails and returns no slot
\* records.
C7_MalformedWindowFails ==
  (pc # "idle" /\ \E i \in 1..Len(WorkingSet) : Malformed(WorkingSet[i])) =>
     (out.status = "threw" /\ out.slots = <<>>)

\* C8: when the timezone of a working participant cannot be resolved, the
\* scoring run fails as a whole and returns no slot records.
C8_UnresolvedZoneFails ==
  (pc # "idle" /\ \E i \in 1..Len(WorkingSet) : Unresolved(WorkingSet[i], env.systemZone)) =>
     (out.status = "threw" /\ out.slots = <<>>)

WindowMinutes(hhmm) == hhmm[1].v * 60 + hhmm[2].v
DatePasses(w, localDate) ==
  (IsNull(w.date) \/ w.date[1] = "") \/ (~IsNull(localDate) /\ localDate[1] = w.date[1])

\* C9: isBlocked is true exactly when some window passes the date filter (no
\* date or an empty one passes on every date, a date passes only on the equal
\* local date) and contains localMin; an absent or empty list gives false; a
\* date-scoped window that wraps midnight blocks its minutes before and after
\* midnight on its own date only.
C9_BlockedRule ==
  call.fn = "isBlocked" =>
    LET m == call.localMin
        ws == call.noMeetingWindows
        d == call.localDate
    IN  /\ call.ret <=>
             /\ ~IsNull(ws)
             /\ \E i \in 1..Len(ws[1]) :
                  /\ DatePasses(ws[1][i], d)
                  /\ m \in RangeSet(WindowMinutes(ws[1][i].start), WindowMinutes(ws[1][i].end))
        /\ (IsNull(ws) \/ ws = Some(<<>>)) => ~call.ret
        /\ ws = Some(<<WrapDated>>) =>
             (call.ret <=> (d = Some(AnchorDate) /\ (m >= 23 * 60 \/ m < 60)))

\* 00:30 on the day after the window's date is not blocked
C9_Witness ==
  /\ call.fn = "isBlocked"
  /\ call.noMeetingWindows = Some(<<WrapDated>>)
  /\ call.localDate = Some(NextDate)
  /\ call.localMin = 30
  /\ ~call.ret

\* C10: the classifier returns green with green.score in the green range,
\* else yellow with the one yellow score in either yellow range, else red
\* with redScore; under the default rules green is 09:00-17:59, yellow
\* 06:30-08:59 and 18:00-23:29, red 23:30-06:29, and an early_bird at local
\* 08:00 contributes 2 + 1 = 3.
C10_BandClassifier ==
  /\ call.fn = "getBaseScoreAndBand" =>
       LET m == call.localMin
           r == call.rules
           g == m \in RangeSet(r.green.start, r.green.end)
           y == \/ m \in RangeSet(r.yellow1.start, r.yellow1.end)
                \/ m \in RangeSet(r.yellow2.start, r.yellow2.end)
       IN  /\ g => call.ret = [baseScore |-> r.green.score, band |-> "green"]
           /\ (~g /\ y) => call.ret = [baseScore |-> r.yellow1.score, band |-> "yellow"]
           /\ (~g /\ ~y) => call.ret = [baseScore |-> r.redScore, band |-> "red"]
           /\ r = DEFAULT_RULES =>
                /\ (9 * 60 <= m /\ m <= 17 * 60 + 59) => call.ret = [baseScore |-> 3, band |-> "green"]
                /\ ((6 * 60 + 30 <= m /\ m <= 8 * 60 + 59) \/ (18 * 60 <= m /\ m <= 23 * 60 + 29))
                      => call.ret = [baseScore |-> 2, band |-> "yellow"]
                /\ (m >= 23 * 60 + 30 \/ m <= 6 * 60 + 29) => call.ret = [baseScore |-> 0, band |-> "red"]
  /\ (/\ call.fn = "preferenceBoost"
      /\ call.rules = DEFAULT_RULES
      /\ call.preference = "early_bird"
      /\ call.localMin = 8 * 60) =>
       /\ call.ret = 1
       /\ getBaseScoreAndBand(Num(call.localMin), call.rules).baseScore + call.ret = 3

\* a minute inside both the green range and a yellow range is green
C10_Witness ==
  /\ call.fn = "getBaseScoreAndBand"
  /\ call.rules = ALT_RULES
  /\ call.localMin \in RangeSet(call.rules.green.start, call.rules.green.end)
  /\ call.localMin \in RangeSet(call.rules.yellow1.start, call.rules.yellow1.end)
  /\ call.ret.band = "green"

====
